---- MODULE Spec2Model ----
(***************************************************************************)
(* Feedback resolution of GET /api/feedback (main/api.py, FeedbackView.get) *)
(* over the Feedback table (main/models.py).  Time is counted in minutes.   *)
(* A resolution is a sequence of steps, one per store query, so that the    *)
(* number and the order of the queries are part of the state.               *)
(***************************************************************************)
EXTENDS Integers, Sequences, FiniteSets, TLC

VARIABLES store, nextId, clock, pc, param, minutes, since,
          latest_per_sensor, cold, hot, seen, queries, reads, resp, first

vars == <<store, nextId, clock, pc, param, minutes, since,
          latest_per_sensor, cold, hot, seen, queries, reads, resp, first>>

\* ---------------------------------------------------------------- bounds
\* Number of Feedback rows ever inserted (ids are 1..MaxRecords).
MaxRecords == 2
\* The clock runs from StartTime up to MaxTime.
MaxTime == 17

\* ------------------------------------------------------- program constants
\* request.query_params.get("window", 15)
DefaultWindow == 15
\* models.Feedback.window default: timedelta(minutes=15)
DefaultRecordWindow == 15

\* ------------------------------------------------------------ input sets
NULL == "NULL"
ABSENT == <<"absent">>
\* The clock starts one minute past the default window, so that since > 0.
StartTime == DefaultWindow + 1

Sensors == {"S-001", "S-002"}
\* (cold_count, hot_count) of the rows written by the ingestion side.
Counts == {<<2, 1>>, <<1, 0>>, <<9, 9>>}
\* updated_at values written by the ingestion side: one that the default
\* window reaches only while the clock is at StartTime, and two recent ones.
Stamps == {StartTime - DefaultWindow, StartTime - 1, StartTime}
\* window query parameters, as character sequences; ABSENT is no parameter,
\* <<>> is "?window=".
WindowParams ==
    {ABSENT, <<"a", "b", "c">>, <<>>, <<"1">>, <<" ", "0", "2">>, <<"-", "1">>}

\* ------------------------------------------------------------- the store
\* models.Feedback: one row.
FeedbackRow(id, sensor, cnt, at) ==
    [id |-> id, sensor |-> sensor, cold_count |-> cnt[1], hot_count |-> cnt[2],
     window |-> DefaultRecordWindow, updated_at |-> at]

RECURSIVE SumOf(_, _)
\* Sum("cold_count") / Sum("hot_count") over a row set; None on the empty set.
SumOf(rows, field) ==
    IF rows = {} THEN 0
    ELSE LET r == CHOOSE x \in rows : TRUE
         IN  r[field] + SumOf(rows \ {r}, field)

\* Max("updated_at") over a non-empty set of rows.
MaxUpdatedAt(rows) ==
    CHOOSE m \in {r.updated_at : r \in rows} : \A r \in rows : r.updated_at <= m

\* Mutant of GlobalRows: global rows older than the default window are ignored.
GlobalRows_fresh(s) ==
    {r \in s : r.sensor = NULL /\ r.updated_at >= clock - DefaultWindow}

\* Feedback.objects.filter(sensor__isnull=True)
GlobalRows(s) == {r \in s : r.sensor = NULL}

\* Mutant of GlobalOrderBefore: order_by("-updated_at") without the id key.
GlobalOrderBefore_noId(a, b) == a.updated_at > b.updated_at

\* order_by("-updated_at", "-id"): a comes before b.
GlobalOrderBefore(a, b) ==
    \/ a.updated_at > b.updated_at
    \/ a.updated_at = b.updated_at /\ a.id > b.id

\* .first(): the rows that the ORDER BY allows in first place.  Rows that the
\* sort keys do not separate may come in either order.
FirstRows(rows) == {r \in rows : \A o \in rows : ~GlobalOrderBefore(o, r)}

\* Mutant of InWindow: updated_at__gt instead of updated_at__gte.
InWindow_strict(s, snc) == {r \in s : r.sensor # NULL /\ r.updated_at > snc}

\* filter(sensor__isnull=False, updated_at__gte=since)
InWindow(s, snc) == {r \in s : r.sensor # NULL /\ r.updated_at >= snc}

\* .values("sensor_id").annotate(latest=Max("updated_at"))
LatestPerSensor(s, snc) ==
    LET w == InWindow(s, snc)
    IN  {[sensor_id |-> sid,
          latest |-> MaxUpdatedAt({r \in w : r.sensor = sid})] :
            sid \in {r.sensor : r \in w}}

\* q_objects |= Q(sensor_id=..., updated_at=...); Feedback.objects.filter(q_objects)
Selected(s, lps) ==
    {r \in s : \E row \in lps :
        r.sensor = row.sensor_id /\ r.updated_at = row.latest}

\* What the three aggregates of lines 157-159 give on one selection; latest
\* is 0 where Max("updated_at") is None.
Yield(sel) ==
    [cold |-> IF sel = {} THEN 0 ELSE SumOf(sel, "cold_count"),
     hot |-> IF sel = {} THEN 0 ELSE SumOf(sel, "hot_count"),
     latest |-> IF sel = {} THEN 0 ELSE MaxUpdatedAt(sel)]

\* selected.aggregate(s=Sum(field))["s"] or 0
SumOrZero(rows, field) == IF rows = {} THEN 0 ELSE SumOf(rows, field)

\* ------------------------------------------------------ int(minutes)
DigitSeq == <<"0", "1", "2", "3", "4", "5", "6", "7", "8", "9">>
IsDigit(c) == \E i \in 1..Len(DigitSeq) : DigitSeq[i] = c
DigitVal(c) == (CHOOSE i \in 1..Len(DigitSeq) : DigitSeq[i] = c) - 1

RECURSIVE Strip(_)
\* str.strip() as int() applies it: leading and trailing blanks are dropped.
Strip(s) ==
    IF s = <<>> THEN s
    ELSE IF Head(s) = " " THEN Strip(Tail(s))
    ELSE IF s[Len(s)] = " " THEN Strip(SubSeq(s, 1, Len(s) - 1))
    ELSE s

RECURSIVE DigitsValue(_, _)
\* Value of a digit string read left to right; underscores are skipped.
DigitsValue(s, acc) ==
    IF s = <<>> THEN acc
    ELSE IF Head(s) = "_" THEN DigitsValue(Tail(s), acc)
    ELSE DigitsValue(Tail(s), 10 * acc + DigitVal(Head(s)))

\* int(x): x is the default 15 (already an int) or the parameter's text.
\* ok = FALSE stands for ValueError.
IntOf(p) ==
    IF p = ABSENT THEN [ok |-> TRUE, val |-> DefaultWindow]
    ELSE LET t == Strip(p)
             signed == t # <<>> /\ Head(t) \in {"+", "-"}
             u == IF signed THEN Tail(t) ELSE t
             wellformed ==
                 /\ u # <<>>
                 /\ \A i \in 1..Len(u) : IsDigit(u[i]) \/ u[i] = "_"
                 /\ u[1] # "_" /\ u[Len(u)] # "_"
                 /\ \A i \in 1..(Len(u) - 1) : ~(u[i] = "_" /\ u[i + 1] = "_")
         IN  IF ~wellformed THEN [ok |-> FALSE, val |-> 0]
             ELSE IF signed /\ Head(t) = "-"
                  THEN [ok |-> TRUE, val |-> 0 - DigitsValue(u, 0)]
                  ELSE [ok |-> TRUE, val |-> DigitsValue(u, 0)]

\* ---------------------------------------------------------- responses
\* FeedbackSerializer(fb).data: Meta.fields = (sensorId, hotCount, coldCount).
\* sensorId has source "sensor.sensor_id" and required=False: on a row whose
\* sensor is None the attribute lookup fails and the field is left out.
FeedbackSerializer(fb) ==
    IF fb.sensor = NULL
    THEN [hotCount |-> fb.hot_count, coldCount |-> fb.cold_count]
    ELSE [sensorId |-> fb.sensor, hotCount |-> fb.hot_count,
          coldCount |-> fb.cold_count]

Response(data) == [status |-> 200, data |-> data]

BadRequest ==
    [status |-> 400,
     data |-> [error |-> [code |-> "BAD_REQUEST",
                          message |-> "window must be integer minutes"]]]

\* Mutant of ZeroPayload: the window of the empty case is the literal 15.
ZeroPayload_default15(m, now) ==
    [sensorId |-> NULL, coldCount |-> 0, hotCount |-> 0,
     window |-> [minutes |-> DefaultWindow], updatedAt |-> now]

\* The payload of the empty case.
ZeroPayload(m, now) ==
    [sensorId |-> NULL, coldCount |-> 0, hotCount |-> 0,
     window |-> [minutes |-> m], updatedAt |-> now]

\* The payload of the computed case.
SumPayload(c, h, m, latest) ==
    [sensorId |-> NULL, coldCount |-> c, hotCount |-> h,
     window |-> [minutes |-> m], updatedAt |-> latest]

NoResponse == [status |-> 0, data |-> [none |-> TRUE]]
NoFirst == [set |-> FALSE, resp |-> NoResponse, reads |-> <<>>]

\* ------------------------------------------------------------- Init
Init ==
    /\ store = {}
    /\ nextId = 1
    /\ clock = StartTime
    /\ pc = "idle"
    /\ param = ABSENT
    /\ minutes = 0
    /\ since = 0
    /\ latest_per_sensor = {}
    /\ cold = 0
    /\ hot = 0
    /\ seen = {}
    /\ queries = <<>>
    /\ reads = <<>>
    /\ resp = NoResponse
    /\ first = NoFirst

\* seen is an observation log of the current resolution: for each store state
\* that one of its queries has read, what the selection yields in that state
\* (Yield), kept for as long as it agrees with the values read so far.
locals == <<minutes, since, latest_per_sensor, cold, hot, seen>>
ResetLocals ==
    /\ minutes' = 0
    /\ since' = 0
    /\ latest_per_sensor' = {}
    /\ cold' = 0
    /\ hot' = 0
    /\ seen' = {}

\* ------------------------------------------------------ the writers
\* Feedback.objects.create(sensor=..., cold_count=..., hot_count=..., updated_at=...)
Insert(sensor, cnt, at) ==
    /\ nextId <= MaxRecords
    /\ store' = store \cup {FeedbackRow(nextId, sensor, cnt, at)}
    /\ nextId' = nextId + 1
    /\ UNCHANGED <<clock, pc, param, locals, queries, reads, resp, first>>

\* FeedbackSerializer.update: the counts of one row are overwritten and saved.
Update(id, cnt) ==
    /\ \E r \in store :
         /\ r.id = id
         /\ <<r.cold_count, r.hot_count>> # cnt
         /\ store' = (store \ {r}) \cup
                {[r EXCEPT !.cold_count = cnt[1], !.hot_count = cnt[2]]}
    /\ UNCHANGED <<nextId, clock, pc, param, locals, queries, reads, resp, first>>

\* A row is deleted (admin site).
Delete(id) ==
    /\ \E r \in store : r.id = id /\ store' = store \ {r}
    /\ UNCHANGED <<nextId, clock, pc, param, locals, queries, reads, resp, first>>

\* timezone.now() advances.
Tick ==
    /\ clock < MaxTime
    /\ clock' = clock + 1
    /\ UNCHANGED <<store, nextId, pc, param, locals, queries, reads, resp, first>>

\* ---------------------------------------------------- the resolution
\* GET /api/feedback arrives, with or without ?window=...
Request(p) ==
    /\ pc = "idle"
    /\ param' = p
    /\ pc' = "global"
    /\ UNCHANGED <<store, nextId, clock, locals, queries, reads, resp, first>>

\* Mutant of QueryGlobal: the row that is returned is saved back with a new
\* updated_at.
QueryGlobal_touch ==
    /\ pc = "global"
    /\ queries' = Append(queries, "global")
    /\ LET rows == {r \in store : r.sensor = NULL}
       IN  IF rows = {}
           THEN pc' = "parse" /\ UNCHANGED <<resp, store>>
           ELSE \E g \in rows :
                    /\ \A o \in rows : o.updated_at < g.updated_at
                                       \/ (o.updated_at = g.updated_at /\ o.id <= g.id)
                    /\ resp' = [status |-> 200,
                                data |-> [hotCount |-> g.hot_count,
                                          coldCount |-> g.cold_count]]
                    /\ store' = (store \ {g}) \cup {[g EXCEPT !.updated_at = clock]}
                    /\ pc' = "done"
    /\ UNCHANGED <<nextId, clock, param, minutes, since, latest_per_sensor,
                   cold, hot, seen, reads, first>>

\* Lines 117-122: the global lookup, and the early return on a hit.
QueryGlobal ==
    /\ pc = "global"
    /\ queries' = Append(queries, "global")
    /\ LET rows == GlobalRows(store)
       IN  IF rows = {}
           THEN pc' = "parse" /\ UNCHANGED resp
           ELSE \E g \in FirstRows(rows) :
                    /\ resp' = Response(FeedbackSerializer(g))
                    /\ pc' = "done"
    /\ UNCHANGED <<store, nextId, clock, param, locals, reads, first>>

\* Lines 125-132: int(minutes), the 400 on ValueError, since = now - minutes.
ParseWindow ==
    /\ pc = "parse"
    /\ LET m == IntOf(param)
       IN  IF ~m.ok
           THEN /\ resp' = BadRequest
                /\ pc' = "done"
                /\ UNCHANGED <<minutes, since, reads>>
           ELSE /\ minutes' = m.val
                /\ since' = clock - m.val
                /\ reads' = Append(reads, clock)
                /\ pc' = "latest"
                /\ UNCHANGED resp
    /\ UNCHANGED <<store, nextId, clock, param, latest_per_sensor, cold, hot,
                   seen, queries, first>>

\* Lines 136-150: the per-sensor max lookup, and the zero result if it is empty.
QueryLatest ==
    /\ pc = "latest"
    /\ queries' = Append(queries, "latest")
    /\ latest_per_sensor' = LatestPerSensor(store, since)
    /\ IF latest_per_sensor' = {}
       THEN /\ resp' = Response(ZeroPayload(minutes, clock))
            /\ reads' = Append(reads, clock)
            /\ pc' = "done"
            /\ UNCHANGED seen
       ELSE /\ pc' = "cold"
            /\ seen' = {Yield(Selected(store, latest_per_sensor'))}
            /\ UNCHANGED <<resp, reads>>
    /\ UNCHANGED <<store, nextId, clock, param, minutes, since, cold, hot, first>>

\* Line 157: selected.aggregate(s=Sum("cold_count"))["s"] or 0
AggCold ==
    /\ pc = "cold"
    /\ queries' = Append(queries, "sum_cold")
    /\ cold' = SumOrZero(Selected(store, latest_per_sensor), "cold_count")
    /\ seen' = {y \in seen \cup {Yield(Selected(store, latest_per_sensor))} :
                    y.cold = cold'}
    /\ pc' = "hot"
    /\ UNCHANGED <<store, nextId, clock, param, minutes, since,
                   latest_per_sensor, hot, reads, resp, first>>

\* Line 158: selected.aggregate(s=Sum("hot_count"))["s"] or 0
AggHot ==
    /\ pc = "hot"
    /\ queries' = Append(queries, "sum_hot")
    /\ hot' = SumOrZero(Selected(store, latest_per_sensor), "hot_count")
    /\ seen' = {y \in seen \cup {Yield(Selected(store, latest_per_sensor))} :
                    y.cold = cold /\ y.hot = hot'}
    /\ pc' = "max"
    /\ UNCHANGED <<store, nextId, clock, param, minutes, since,
                   latest_per_sensor, cold, reads, resp, first>>

\* Mutant of AggLatest: updatedAt is taken from the rows of latest_per_sensor
\* instead of a query on the selection.
AggLatest_fromRows ==
    /\ pc = "max"
    /\ queries' = Append(queries, "max_updated_at")
    /\ LET m == CHOOSE x \in {row.latest : row \in latest_per_sensor} :
                    \A row \in latest_per_sensor : row.latest <= x
       IN  resp' = [status |-> 200,
                    data |-> [sensorId |-> NULL, coldCount |-> cold,
                              hotCount |-> hot, window |-> [minutes |-> minutes],
                              updatedAt |-> m]]
    /\ UNCHANGED <<reads, seen>>
    /\ pc' = "done"
    /\ UNCHANGED <<store, nextId, clock, param, minutes, since,
                   latest_per_sensor, cold, hot, first>>

\* Lines 159-168: selected.aggregate(m=Max("updated_at"))["m"] or timezone.now(),
\* and the payload.
AggLatest ==
    /\ pc = "max"
    /\ queries' = Append(queries, "max_updated_at")
    /\ LET sel == Selected(store, latest_per_sensor)
       IN  IF sel = {}
           THEN /\ resp' = Response(SumPayload(cold, hot, minutes, clock))
                /\ reads' = Append(reads, clock)
           ELSE /\ resp' = Response(SumPayload(cold, hot, minutes,
                                               MaxUpdatedAt(sel)))
                /\ UNCHANGED reads
    /\ seen' = {y \in seen \cup {Yield(Selected(store, latest_per_sensor))} :
                    /\ y.cold = cold /\ y.hot = hot
                    /\ y.latest = Yield(Selected(store, latest_per_sensor)).latest}
    /\ pc' = "done"
    /\ UNCHANGED <<store, nextId, clock, param, minutes, since,
                   latest_per_sensor, cold, hot, first>>

\* The response has been sent; the next request starts from scratch.
Finish ==
    /\ pc = "done"
    /\ pc' = "idle"
    /\ param' = ABSENT
    /\ ResetLocals
    /\ queries' = <<>>
    /\ reads' = <<>>
    /\ resp' = NoResponse
    /\ first' = NoFirst
    /\ UNCHANGED <<store, nextId, clock>>

\* The same request is sent a second time, before any writer has acted; the
\* first response is kept for comparison.
Repeat ==
    /\ pc = "done"
    /\ ~first.set
    /\ first' = [set |-> TRUE, resp |-> resp, reads |-> reads]
    /\ pc' = "global"
    /\ ResetLocals
    /\ queries' = <<>>
    /\ reads' = <<>>
    /\ resp' = NoResponse
    /\ UNCHANGED <<store, nextId, clock, param>>

\* One step of FeedbackView.get.
ResolverStep ==
    QueryGlobal \/ ParseWindow \/ QueryLatest \/ AggCold \/ AggHot \/ AggLatest

\* One step of a writer; in Spec the writers act between resolutions only.
WriterStep ==
    /\ pc = "idle"
    /\ \/ \E s \in Sensors \cup {NULL}, c \in Counts, t \in Stamps : Insert(s, c, t)
       \/ \E i \in 1..MaxRecords, c \in Counts : Update(i, c)
       \/ \E i \in 1..MaxRecords : Delete(i)

Next ==
    \/ WriterStep
    \/ Tick
    \/ \E p \in WindowParams : Request(p)
    \/ ResolverStep
    \/ Finish
    \/ Repeat

Spec == Init /\ [][Next]_vars

\* ------------------------------------------- concurrent writers
\* One step of a writer that does not wait for the resolution: the view runs
\* in no transaction, so rows can change between any two of its queries.
ConcurrentWriterStep ==
    \/ \E s \in Sensors \cup {NULL}, c \in Counts, t \in Stamps : Insert(s, c, t)
    \/ \E i \in 1..MaxRecords, c \in Counts : Update(i, c)
    \/ \E i \in 1..MaxRecords : Delete(i)

\* The requests of the concurrent runs: the default window and a short one.
ConcParams == {ABSENT, <<"1">>}

NextConc ==
    \/ ConcurrentWriterStep
    \/ Tick
    \/ \E p \in ConcParams : Request(p)
    \/ ResolverStep
    \/ Finish

SpecConc == Init /\ [][NextConc]_vars

\* ------------------------------------------------- GET /api/overview
\* minutes = 15 in OverviewView.get.
OverviewMinutes == 15

\* The overview response; of its keys only "feedback" is modelled (map,
\* sensors, health and coordinateMeta do not depend on the Feedback table).
OverviewResponse(fb_payload) == [status |-> 200, data |-> [feedback |-> fb_payload]]

\* GET /api/overview arrives.
OvRequest ==
    /\ pc = "idle"
    /\ pc' = "ov_global"
    /\ UNCHANGED <<store, nextId, clock, param, locals, queries, reads, resp, first>>

\* GET /api/overview is sent right after GET /api/feedback without a window
\* parameter has answered, before any writer has acted; the feedback response
\* is kept for comparison.
OvFollow ==
    /\ pc = "done"
    /\ param = ABSENT
    /\ ~first.set
    /\ first' = [set |-> TRUE, resp |-> resp, reads |-> reads]
    /\ pc' = "ov_global"
    /\ ResetLocals
    /\ queries' = <<>>
    /\ reads' = <<>>
    /\ resp' = NoResponse
    /\ UNCHANGED <<store, nextId, clock, param>>

\* Lines 187-192: the global lookup of the overview.
OvQueryGlobal ==
    /\ pc = "ov_global"
    /\ queries' = Append(queries, "global")
    /\ LET rows == GlobalRows(store)
       IN  IF rows = {}
           THEN pc' = "ov_since" /\ UNCHANGED resp
           ELSE \E g \in FirstRows(rows) :
                    /\ resp' = OverviewResponse(FeedbackSerializer(g))
                    /\ pc' = "ov_done"
    /\ UNCHANGED <<store, nextId, clock, param, locals, reads, first>>

\* Lines 194-195: minutes = 15, since = now - minutes.
OvSince ==
    /\ pc = "ov_since"
    /\ minutes' = OverviewMinutes
    /\ since' = clock - OverviewMinutes
    /\ reads' = Append(reads, clock)
    /\ pc' = "ov_latest"
    /\ UNCHANGED <<store, nextId, clock, param, latest_per_sensor, cold, hot,
                   seen, queries, resp, first>>

\* Lines 196-200 and 215-222: the per-sensor max lookup, and the zero payload.
OvQueryLatest ==
    /\ pc = "ov_latest"
    /\ queries' = Append(queries, "latest")
    /\ latest_per_sensor' = LatestPerSensor(store, since)
    /\ IF latest_per_sensor' = {}
       THEN /\ resp' = OverviewResponse(
                         [sensorId |-> NULL, coldCount |-> 0, hotCount |-> 0,
                          window |-> [minutes |-> 15], updatedAt |-> clock])
            /\ reads' = Append(reads, clock)
            /\ pc' = "ov_done"
       ELSE /\ pc' = "ov_cold"
            /\ UNCHANGED <<resp, reads>>
    /\ UNCHANGED <<store, nextId, clock, param, minutes, since, cold, hot,
                   seen, first>>

\* Line 205: cold = selected.aggregate(s=Sum("cold_count"))["s"] or 0
OvAggCold ==
    /\ pc = "ov_cold"
    /\ queries' = Append(queries, "sum_cold")
    /\ cold' = SumOrZero(Selected(store, latest_per_sensor), "cold_count")
    /\ pc' = "ov_hot"
    /\ UNCHANGED <<store, nextId, clock, param, minutes, since,
                   latest_per_sensor, hot, seen, reads, resp, first>>

\* Mutant of OvAggHot: the hot sum is taken over cold_count.
OvAggHot_cold ==
    /\ pc = "ov_hot"
    /\ queries' = Append(queries, "sum_hot")
    /\ hot' = SumOrZero(Selected(store, latest_per_sensor), "cold_count")
    /\ pc' = "ov_max"
    /\ UNCHANGED <<store, nextId, clock, param, minutes, since,
                   latest_per_sensor, cold, seen, reads, resp, first>>

\* Line 206: hot = selected.aggregate(s=Sum("hot_count"))["s"] or 0
OvAggHot ==
    /\ pc = "ov_hot"
    /\ queries' = Append(queries, "sum_hot")
    /\ hot' = SumOrZero(Selected(store, latest_per_sensor), "hot_count")
    /\ pc' = "ov_max"
    /\ UNCHANGED <<store, nextId, clock, param, minutes, since,
                   latest_per_sensor, cold, seen, reads, resp, first>>

\* Lines 207-214: latest = ...aggregate(m=Max("updated_at"))["m"] or
\* timezone.now(), and fb_payload.
OvAggLatest ==
    /\ pc = "ov_max"
    /\ queries' = Append(queries, "max_updated_at")
    /\ LET sel == Selected(store, latest_per_sensor)
       IN  IF sel = {}
           THEN /\ resp' = OverviewResponse(SumPayload(cold, hot, minutes, clock))
                /\ reads' = Append(reads, clock)
           ELSE /\ resp' = OverviewResponse(SumPayload(cold, hot, minutes,
                                                       MaxUpdatedAt(sel)))
                /\ UNCHANGED reads
    /\ pc' = "ov_done"
    /\ UNCHANGED <<store, nextId, clock, param, locals, first>>

\* Lines 225-236: the overview response has been sent.
OvFinish ==
    /\ pc = "ov_done"
    /\ pc' = "idle"
    /\ ResetLocals
    /\ queries' = <<>>
    /\ reads' = <<>>
    /\ resp' = NoResponse
    /\ first' = NoFirst
    /\ UNCHANGED <<store, nextId, clock, param>>

\* One step of the feedback part of OverviewView.get.
OverviewStep ==
    OvQueryGlobal \/ OvSince \/ OvQueryLatest \/ OvAggCold \/ OvAggHot
        \/ OvAggLatest

NextOv ==
    \/ Next
    \/ OvRequest
    \/ OvFollow
    \/ OverviewStep
    \/ OvFinish

SpecOv == Init /\ [][NextOv]_vars

\* =================================================================
\* Reference notions used by the properties.  They are written out on the
\* store itself and use none of the operators of the resolution above.
\* =================================================================
Globals == {r \in store : r.sensor = NULL}
PerSensor == {r \in store : r.sensor # NULL}

\* The global row with the greatest updated_at, the highest id among equals.
TheGlobal ==
    CHOOSE g \in Globals :
        \A o \in Globals \ {g} :
            \/ o.updated_at < g.updated_at
            \/ o.updated_at = g.updated_at /\ o.id < g.id

\* The parameter is present and is no integer.
Malformed == param \in {<<"a", "b", "c">>, <<>>}

\* The window the request asks for, in minutes.
RequestedMinutes ==
    CASE param = ABSENT -> 15
      [] param = <<"1">> -> 1
      [] param = <<" ", "0", "2">> -> 2
      [] param = <<"-", "1">> -> -1
      [] OTHER -> 0

RECURSIVE RefSum(_, _)
RefSum(rows, field) ==
    IF rows = {} THEN 0
    ELSE LET r == CHOOSE x \in rows : TRUE
         IN  r[field] + RefSum(rows \ {r}, field)

\* The resolution has answered, found no global row and parsed its window.
Windowed == pc = "done" /\ Globals = {} /\ ~Malformed

\* Per-sensor rows inside the window that starts at snc.
RefInWindow(snc) == {r \in PerSensor : r.updated_at >= snc}

\* The rows of RefInWindow(snc) that no row of the same sensor is newer than.
RefFreshest(snc) ==
    {r \in RefInWindow(snc) :
        \A o \in RefInWindow(snc) : o.sensor = r.sensor => o.updated_at <= r.updated_at}

\* The ways to keep one freshest in-window row for each sensor that has one.
RefPicks(snc) ==
    LET ss == {r.sensor : r \in RefInWindow(snc)}
        fs == {f \in [ss -> RefFreshest(snc)] : \A x \in ss : f[x].sensor = x}
    IN  {{f[x] : x \in ss} : f \in fs}

\* The first reading of the clock by the resolution (line 132).
FirstNow == reads[1]
\* The last reading of the clock by the resolution.
LastNow == reads[Len(reads)]

\* -----------------------------------------------------------------
\* C1  Global precedence: whenever the store holds a global row, the answer
\* carries the coldCount and hotCount of the global row with the greatest
\* updated_at (highest id among equals), for every window parameter, however
\* old that row is and whatever per-sensor rows exist, and the global lookup
\* is the only query issued.
C1_GlobalPrecedence ==
    (pc = "done" /\ Globals # {}) =>
        /\ resp.status = 200
        /\ resp.data.coldCount = TheGlobal.cold_count
        /\ resp.data.hotCount = TheGlobal.hot_count
        /\ queries = <<"global">>
        /\ latest_per_sensor = {} /\ cold = 0 /\ hot = 0

\* A stale global row beside a fresh per-sensor row with other counts,
\* answered under a malformed window parameter.
C1_Witness ==
    /\ pc = "done"
    /\ param = <<"a", "b", "c">>
    /\ \E g \in Globals, r \in PerSensor :
         /\ g.updated_at < clock - DefaultWindow
         /\ r.updated_at >= clock - 1
         /\ g.cold_count # r.cold_count
    /\ resp.status = 200

\* Two global rows with the same updated_at and different counts.
C1_WitnessTie ==
    /\ pc = "done"
    /\ \E g \in Globals, h \in Globals :
         g.id # h.id /\ g.updated_at = h.updated_at
         /\ <<g.cold_count, g.hot_count>> # <<h.cold_count, h.hot_count>>
    /\ resp.status = 200

\* -----------------------------------------------------------------
\* C2  A malformed window parameter always yields the BAD_REQUEST error
\* "window must be integer minutes", before any store query is issued.
C2_MalformedAlwaysError ==
    (pc = "done" /\ Malformed) =>
        /\ resp = [status |-> 400,
                   data |-> [error |-> [code |-> "BAD_REQUEST",
                                        message |-> "window must be integer minutes"]]]
        /\ queries = <<>>

\* -----------------------------------------------------------------
\* C3  No double counting: in a computed result every sensor with a row in
\* the window has exactly one row in the selection that is summed, also when
\* several of its rows share the greatest updated_at.
C3_OnePerSensor ==
    (Windowed /\ RefInWindow(since) # {}) =>
        \A x \in Sensors :
            Cardinality({r \in Selected(store, latest_per_sensor) : r.sensor = x})
                = IF \E r \in RefInWindow(since) : r.sensor = x THEN 1 ELSE 0

\* -----------------------------------------------------------------
\* C4  Windowed sum: without a global row and with a row in the window, the
\* answer has sensorId null, window.minutes the requested window, and
\* coldCount and hotCount the sums over one latest in-window row per sensor.
C4_WindowedSum ==
    (Windowed /\ RefInWindow(since) # {}) =>
        /\ since = FirstNow - RequestedMinutes
        /\ resp.status = 200
        /\ resp.data.sensorId = NULL
        /\ resp.data.window = [minutes |-> RequestedMinutes]
        /\ \E pick \in RefPicks(since) :
             /\ resp.data.coldCount = RefSum(pick, "cold_count")
             /\ resp.data.hotCount = RefSum(pick, "hot_count")

\* -----------------------------------------------------------------
\* C5  A global hit is answered with the full result shape: the five keys
\* sensorId, coldCount, hotCount, window, updatedAt, filled from the row.
C5_GlobalFullShape ==
    (pc = "done" /\ Globals # {}) =>
        /\ resp.status = 200
        /\ DOMAIN resp.data =
             {"sensorId", "coldCount", "hotCount", "window", "updatedAt"}
        /\ resp.data.sensorId = NULL
        /\ resp.data.coldCount = TheGlobal.cold_count
        /\ resp.data.hotCount = TheGlobal.hot_count
        /\ resp.data.window = [minutes |-> TheGlobal.window]
        /\ resp.data.updatedAt = TheGlobal.updated_at

\* -----------------------------------------------------------------
\* C6  Window exclusivity: without a global row, coldCount and hotCount are
\* sums over rows with updated_at >= since only, where since is the clock
\* reading minus the requested window; a row at exactly since is inside, and
\* it counts unless its sensor has a newer row.
C6_WindowExclusivity ==
    Windowed =>
        /\ since = FirstNow - RequestedMinutes
        /\ resp.status = 200
        /\ resp.data.coldCount = RefSum(RefFreshest(since), "cold_count")
        /\ resp.data.hotCount = RefSum(RefFreshest(since), "hot_count")

\* A computed result over a store that has a row before since, a row at
\* exactly since and the latter is counted.
C6_Witness ==
    /\ Windowed
    /\ \E r \in PerSensor : r.updated_at < since
    /\ \E r \in RefFreshest(since) : r.updated_at = since
    /\ resp.data.coldCount > 0
    /\ resp.data.coldCount < RefSum(PerSensor, "cold_count")

\* -----------------------------------------------------------------
\* C7  Zero default: without a global row and without a per-sensor row in the
\* window, the answer is the 200 result with coldCount 0, hotCount 0,
\* sensorId null, window.minutes the requested window (15 if absent) and
\* updatedAt the time read when the result is built.
C7_ZeroDefault ==
    (Windowed /\ RefInWindow(FirstNow - RequestedMinutes) = {}) =>
        /\ Len(reads) = 2
        /\ LastNow >= FirstNow
        /\ resp = [status |-> 200,
                   data |-> [sensorId |-> NULL, coldCount |-> 0, hotCount |-> 0,
                             window |-> [minutes |-> RequestedMinutes],
                             updatedAt |-> LastNow]]

\* The zero result over a store whose rows are all outside a one-minute
\* window.
C7_Witness ==
    /\ Windowed
    /\ param = <<"1">>
    /\ PerSensor # {}
    /\ RefInWindow(FirstNow - 1) = {}
    /\ resp.data.coldCount = 0
    /\ resp.data.window.minutes = 1

\* The zero result over the empty store, without a window parameter.
C7_WitnessEmptyStore ==
    Windowed /\ store = {} /\ param = ABSENT /\ resp.data.window.minutes = 15

\* -----------------------------------------------------------------
\* C8  A resolution issues at most three queries, in the order global
\* lookup, per-sensor max lookup, selection-and-sum lookup, and exactly one
\* when it finds a global row.
C8_AtMostThreeQueries ==
    pc = "done" =>
        /\ Len(queries) <= 3
        /\ \A i \in 1..Len(queries) :
             queries[i] \in (CASE i = 1 -> {"global"}
                               [] i = 2 -> {"latest"}
                               [] OTHER -> {"sum_cold", "sum_hot", "max_updated_at"})
        /\ (Globals # {} => Len(queries) = 1)

\* -----------------------------------------------------------------
\* C9  Idempotence: a second resolution with the same window parameter, over
\* the same store and with the same clock readings as the first gives the
\* same answer, also when several global rows share an updated_at.
SameNow ==
    LET all == reads \o first.reads
    IN  \A i \in 1..Len(all), j \in 1..Len(all) : all[i] = all[j]

C9_Idempotent ==
    (pc = "done" /\ first.set /\ SameNow) => resp = first.resp

\* Two answers over a store in which two global rows with different counts
\* share an updated_at.
C9_Witness ==
    /\ pc = "done"
    /\ first.set
    /\ SameNow
    /\ \E g \in Globals, h \in Globals :
         g.id # h.id /\ g.updated_at = h.updated_at
         /\ g.cold_count # h.cold_count

\* Two computed answers with the same clock reading.
C9_WitnessComputed ==
    /\ pc = "done"
    /\ first.set
    /\ SameNow
    /\ Len(queries) = 5
    /\ Len(first.reads) = 1

\* -----------------------------------------------------------------
\* C10  Read-only: no step taken while a resolution is in progress changes
\* the set of Feedback rows or any of their fields, on any path.
C10_ReadOnly == [][pc # "idle" => store' = store /\ nextId' = nextId]_vars

\* A computed answer over a store that is full.
C10_Witness ==
    /\ pc = "done"
    /\ Len(queries) = 5
    /\ Cardinality(store) = MaxRecords
    /\ resp.status = 200

\* -----------------------------------------------------------------
\* The rows of the current store that the selection of the resolution
\* matches: a row of a sensor of latest_per_sensor at that sensor's maximum.
RefSelected ==
    {r \in PerSensor : \E row \in latest_per_sensor :
        r.sensor = row.sensor_id /\ r.updated_at = row.latest}

\* The resolution has answered on the computed path (steps 3 and 4).
Computed == pc = "done" /\ Len(queries) = 5

\* C11 as stated: in a computed result updatedAt is the updated_at of a
\* selected row and the fallback to the clock is never taken in step 4,
\* whatever the writers do during the resolution.
C11_NoFallbackInStep4 ==
    Computed =>
        /\ Len(reads) = 1
        /\ resp.data.updatedAt \in {row.latest : row \in latest_per_sensor}

\* C11 as amended: under every interleaving of writers, the step that builds
\* the computed result sets updatedAt to the greatest updated_at among the
\* rows the selection matches at the time of its Max query, and reads the
\* clock instead exactly when the selection matches no row by then.
C11_LatestOrFallback ==
    [][(pc = "max" /\ pc' = "done") =>
          IF RefSelected = {}
          THEN /\ resp'.data.updatedAt = clock
               /\ reads' = Append(reads, clock)
          ELSE /\ \E r \in RefSelected : resp'.data.updatedAt = r.updated_at
               /\ \A r \in RefSelected : r.updated_at <= resp'.data.updatedAt
               /\ reads' = reads]_vars

\* A computed result whose rows were removed before the Max query: the
\* fallback of step 4 has been taken although the counts are not zero.
C11_Witness ==
    /\ Computed
    /\ Len(reads) = 2
    /\ resp.data.updatedAt = reads[2]
    /\ resp.data.coldCount > 0

\* A computed result, reached while writers acted, whose updatedAt is the
\* maximum of the selection.
C11_WitnessMax ==
    /\ Computed
    /\ Len(reads) = 1
    /\ Cardinality(latest_per_sensor) = 2
    /\ store = {}

\* -----------------------------------------------------------------
\* C13  With writers running during the resolution, coldCount, hotCount and
\* updatedAt of a computed result all come from one selection: some store
\* state that a query of the resolution read has a selection that yields the
\* three values together (seen keeps what those selections yield).
C13_OneSnapshot ==
    Computed =>
        \E y \in seen :
            /\ y.cold = resp.data.coldCount
            /\ y.hot = resp.data.hotCount
            /\ (y.latest # 0 => y.latest = resp.data.updatedAt)

\* -----------------------------------------------------------------
\* C12  The "feedback" field of GET /api/overview equals the response of
\* GET /api/feedback without a window parameter, over the same store and
\* with the same clock readings: the global row if there is one, else the
\* 15-minute windowed sum, else the zero result.
C12_OverviewSameAsFeedback ==
    (pc = "ov_done" /\ first.set /\ SameNow) =>
        /\ resp.status = first.resp.status
        /\ resp.data.feedback = first.resp.data

\* An overview after a feedback answer, both on the computed path with
\* different cold and hot sums.
C12_Witness ==
    /\ pc = "ov_done"
    /\ first.set
    /\ SameNow
    /\ Len(queries) = 5
    /\ first.resp.data.coldCount # first.resp.data.hotCount
    /\ Cardinality(latest_per_sensor) = 2

\* An overview after a feedback answer, both on the global row.
C12_WitnessGlobal ==
    pc = "ov_done" /\ first.set /\ Globals # {} /\ PerSensor # {}

\* An overview after a feedback answer, both the zero result.
C12_WitnessZero ==
    /\ pc = "ov_done" /\ first.set /\ SameNow
    /\ Len(queries) = 2 /\ PerSensor # {}

====
